---------------------------- MODULE Spec2Model ----------------------------
(***************************************************************************)
(* Model of gdscript_docs_maker/modules/convert_to_markdown.py:            *)
(* convert_to_markdown, _add_index_dict, _as_markdown, _write_summary and  *)
(* _replace_references.                                                    *)
(*                                                                         *)
(* A Python str is a sequence of one-character strings, so that the two    *)
(* regular expressions, str.replace, str.split and str.title are computed  *)
(* character by character as the interpreter computes them.                *)
(***************************************************************************)
EXTENDS Integers, Sequences, FiniteSets, TLC

(***************************************************************************)
(* Bounds of the model.                                                    *)
(***************************************************************************)
\* a description is the concatenation of at most MaxPieces pieces
MaxPieces == 3
\* convert_to_markdown gets at most MaxClasses classes
MaxClasses == 2

(***************************************************************************)
(* Characters and strings.                                                 *)
(***************************************************************************)
LowerChars == <<"a","b","c","d","e","f","g","h","i","j","k","l","m",
                "n","o","p","q","r","s","t","u","v","w","x","y","z">>
UpperChars == <<"A","B","C","D","E","F","G","H","I","J","K","L","M",
                "N","O","P","Q","R","S","T","U","V","W","X","Y","Z">>
DigitChars == {"0","1","2","3","4","5","6","7","8","9"}

Range(s) == {s[n] : n \in DOMAIN s}
IsLower(c) == c \in Range(LowerChars)
IsUpper(c) == c \in Range(UpperChars)
IsDigit(c) == c \in DigitChars
IsCased(c) == IsLower(c) \/ IsUpper(c)

IndexIn(c, s) == CHOOSE n \in DOMAIN s : s[n] = c
ToUpper(c) == IF IsLower(c) THEN UpperChars[IndexIn(c, LowerChars)] ELSE c
ToLower(c) == IF IsUpper(c) THEN LowerChars[IndexIn(c, UpperChars)] ELSE c

\* s[a..b], empty when b < a
Slice(s, a, b) == IF b < a THEN <<>> ELSE SubSeq(s, a, b)

\* does sub occur in s at position p
OccursAt(s, sub, p) ==
    /\ p >= 1
    /\ p + Len(sub) - 1 <= Len(s)
    /\ \A n \in 1..Len(sub) : s[p + n - 1] = sub[n]

\* str.find: the first position where sub occurs, 0 when it does not
Find(s, sub) ==
    IF \E p \in 1..(Len(s) + 1) : OccursAt(s, sub, p)
    THEN CHOOSE p \in 1..(Len(s) + 1) :
            /\ OccursAt(s, sub, p)
            /\ \A q \in 1..(p - 1) : ~OccursAt(s, sub, q)
    ELSE 0

\* str.replace(old, new, 1): only the first occurrence is replaced
ReplaceFirst(s, old, new) ==
    LET p == Find(s, old)
    IN  IF p = 0 THEN s
        ELSE Slice(s, 1, p - 1) \o new \o Slice(s, p + Len(old), Len(s))

\* str.replace(old, new) on single characters: every occurrence
ReplaceChar(s, old, new) == [n \in DOMAIN s |-> IF s[n] = old THEN new ELSE s[n]]

\* str.title(): the first cased character of every run of cased characters
\* is upper-cased, the others are lower-cased
Title(s) ==
    [n \in DOMAIN s |->
        IF ~IsCased(s[n]) THEN s[n]
        ELSE IF n > 1 /\ IsCased(s[n - 1]) THEN ToLower(s[n])
        ELSE ToUpper(s[n])]

\* str.split(sep) for a one-character separator
RECURSIVE Split(_, _)
Split(s, sep) ==
    IF \A n \in DOMAIN s : s[n] # sep THEN <<s>>
    ELSE LET p == CHOOSE n \in DOMAIN s :
                     s[n] = sep /\ \A m \in 1..(n - 1) : s[m] # sep
         IN  <<Slice(s, 1, p - 1)>> \o Split(Slice(s, p + 1, Len(s)), sep)

\* "".join over a sequence of strings
RECURSIVE Concat(_)
Concat(ss) == IF ss = <<>> THEN <<>> ELSE Head(ss) \o Concat(Tail(ss))

(***************************************************************************)
(* make_markdown.make_link (not among the sources): a Markdown link.       *)
(***************************************************************************)
make_link(display_text, path) ==
    <<"[">> \o display_text \o <<"]", "(">> \o path \o <<")">>

(***************************************************************************)
(* _replace_references, line 266: re.findall of "[", one or more           *)
(* characters, "]" in the description.                                     *)
(* "." matches every character but the newline and ".+" is greedy, so a    *)
(* match runs from a "[" to the last "]" of the same line, with at least   *)
(* one character in between; the scan goes on after the match.             *)
(***************************************************************************)
LineEnd(s, p) ==
    IF \E n \in (p + 1)..Len(s) : s[n] = "\n"
    THEN (CHOOSE n \in (p + 1)..Len(s) :
            s[n] = "\n" /\ \A m \in (p + 1)..(n - 1) : s[m] # "\n") - 1
    ELSE Len(s)

\* the positions where a match starting at p may end
MatchEnds(s, p) == {q \in (p + 2)..LineEnd(s, p) : s[q] = "]"}

Max(S) == CHOOSE x \in S : \A y \in S : y <= x
Min(S) == CHOOSE x \in S : \A y \in S : x <= y

\* the element of a one-element set; { F(x) : x \in {e} } computes e once
Only(S) == CHOOSE x \in S : TRUE

RECURSIVE FindAllFrom(_, _)
FindAllFrom(s, start) ==
    LET starts == {p \in start..Len(s) : s[p] = "[" /\ MatchEnds(s, p) # {}}
    IN  IF starts = {} THEN <<>>
        ELSE LET p == Min(starts)
                 q == Max(MatchEnds(s, p))
             IN  <<Slice(s, p, q)>> \o FindAllFrom(s, q + 1)

FindAll(description) == FindAllFrom(description, 1)

(***************************************************************************)
(* _replace_references, lines 269-275: re.match of "[", an optional class  *)
(* name (an upper-case letter, then letters and digits), an optional dot,  *)
(* an optional member (lower-case letters, digits, underscores), "]".      *)
(* The match is anchored at the start of the reference only.  Neither      *)
(* group can hold "]", so what is matched is the text up to the first "]": *)
(* the longest class name the rest allows, an optional dot, a member.      *)
(* A group that did not take part is None, here the empty string.          *)
(***************************************************************************)
IsClassChar(c) == IsLower(c) \/ IsUpper(c) \/ IsDigit(c)
IsMemberChar(c) == IsLower(c) \/ IsDigit(c) \/ c = "_"

IsClassPart(s) ==
    s = <<>> \/ (IsUpper(s[1]) /\ \A n \in 2..Len(s) : IsClassChar(s[n]))
IsMemberPart(s) == \A n \in DOMAIN s : IsMemberChar(s[n])
IsRestPart(s) ==
    \/ IsMemberPart(s)
    \/ (s # <<>> /\ s[1] = "." /\ IsMemberPart(Tail(s)))

NoMatch == [ok |-> FALSE, class_name |-> <<>>, member |-> <<>>, length |-> 0]

MatchReference(reference) ==
    IF reference = <<>> \/ reference[1] # "[" THEN NoMatch
    ELSE IF \A n \in DOMAIN reference : reference[n] # "]" THEN NoMatch
    ELSE
    LET q == Min({n \in DOMAIN reference : reference[n] = "]"})
        body == Slice(reference, 2, q - 1)
        cuts == {k \in 0..Len(body) :
                    /\ IsClassPart(Slice(body, 1, k))
                    /\ IsRestPart(Slice(body, k + 1, Len(body)))}
    IN  IF cuts = {} THEN NoMatch
        ELSE LET k == Max(cuts)
                 rest == Slice(body, k + 1, Len(body))
             IN  [ok |-> TRUE,
                  class_name |-> Slice(body, 1, k),
                  member |-> IF rest # <<>> /\ rest[1] = "." THEN Tail(rest)
                             ELSE rest,
                  length |-> q]

(***************************************************************************)
(* _replace_references, lines 297-309: the link of a reference that        *)
(* passed the look-ups.                                                    *)
(***************************************************************************)
LinkDisplay(class_name, member) ==
    class_name
    \o (IF class_name # <<>> /\ member # <<>> THEN <<".">> ELSE <<>>)
    \o member

\* LinkPath without the replace of line 307
LinkPath_KeepsUnderscores(class_name, member) ==
    class_name
    \o (IF class_name # <<>> /\ member # <<>> THEN <<"/">> ELSE <<>>)
    \o (IF member # <<>> THEN <<"#">> \o member ELSE <<>>)

LinkPath(class_name, member) ==
    class_name
    \o (IF class_name # <<>> /\ member # <<>> THEN <<"/">> ELSE <<>>)
    \o (IF member # <<>> THEN <<"#">> \o ReplaceChar(member, "_", "-")
        ELSE <<>>)

(***************************************************************************)
(* _replace_references, lines 267-310: one turn of the loop over the       *)
(* references.  st is the call's state: the description so far, the        *)
(* warnings logged, whether a KeyError was raised, and what this turn did. *)
(* classes.class_index[name] raises KeyError when name is no key.          *)
(***************************************************************************)
ClassWarning(class_name) ==
    [message |-> "class", symbol |-> class_name, searched |-> class_name]
MemberWarning(member, name) ==
    [message |-> "member", symbol |-> member, searched |-> name]

LoopBody(index, name, st, reference) ==
    LET match == MatchReference(reference)
        class_name == match.class_name
        member == match.member
    IN  IF ~match.ok
        THEN [st EXCEPT !.did = "nomatch"]
        ELSE IF class_name # <<>> /\ class_name \notin DOMAIN index
        THEN [st EXCEPT !.did = "class_missing",
                        !.warnings = Append(@, ClassWarning(class_name))]
        ELSE IF member # <<>> /\ class_name # <<>>
                /\ member \notin index[class_name]
        THEN [st EXCEPT !.did = "member_missing",
                        !.warnings = Append(@, MemberWarning(member, class_name))]
        ELSE IF ~(member # <<>> /\ class_name # <<>>)
                /\ member # <<>> /\ name \notin DOMAIN index
        THEN [st EXCEPT !.did = "key_error", !.raised = TRUE]
        ELSE IF ~(member # <<>> /\ class_name # <<>>)
                /\ member # <<>> /\ member \notin index[name]
        THEN [st EXCEPT !.did = "member_missing",
                        !.warnings = Append(@, MemberWarning(member, name))]
        ELSE LET link == make_link(LinkDisplay(class_name, member),
                                   LinkPath(class_name, member))
             IN  [st EXCEPT !.did = "link",
                            !.link = link,
                            !.description = ReplaceFirst(@, reference, link)]

\* a call's state at its start; logged is what LOGGER already holds
CallState(description, logged) ==
    [description |-> description, warnings |-> logged, raised |-> FALSE,
     did |-> "start", link |-> <<>>]

\* the loop from its turn k on; a KeyError ends the call
RECURSIVE LoopFrom(_, _, _, _, _)
LoopFrom(index, name, st, refs, k) ==
    IF k > Len(refs) \/ st.raised THEN st
    ELSE Only({ LoopFrom(index, name, after, refs, k + 1) :
                    after \in {LoopBody(index, name, st, refs[k])} })

\* _replace_references as one call
ReplaceReferences(index, name, description, logged) ==
    Only({ LoopFrom(index, name, CallState(description, logged), refs, 1) :
                refs \in {FindAll(description)} })


(***************************************************************************)
(* The builders of make_markdown (not among the sources), each kept as the *)
(* line or block it returns.  A document's content is the flat list of     *)
(* these, as the code concatenates them.                                   *)
(***************************************************************************)
tDescription == <<"D","e","s","c","r","i","p","t","i","o","n">>
tProperties == <<"P","r","o","p","e","r","t","i","e","s">>
tFunctions == <<"F","u","n","c","t","i","o","n","s">>
tSignals == <<"S","i","g","n","a","l","s">>
tEnumerations == <<"E","n","u","m","e","r","a","t","i","o","n","s">>
tPropertyDescriptions == <<"P","r","o","p","e","r","t","y"," ","D","e","s","c","r","i","p","t","i","o","n","s">>
tMethodDescriptions == <<"M","e","t","h","o","d"," ","D","e","s","c","r","i","p","t","i","o","n","s">>
tContents == <<"C","o","n","t","e","n","t","s">>
tExtends == <<"E","x","t","e","n","d","s",":">>
tindex == <<"i","n","d","e","x">>
trakugo == <<"r","a","k","u","g","o">>
tmain == <<"m","a","i","n">>
tgui == <<"g","u","i">>
tGUI == <<"G","U","I">>
ttrue == <<"t","r","u","e">>
\* the root class's name and the name line 103 gives it
sMain == <<"M","a","i","n">>
sRakugo == <<"R","a","k","u","g","o">>
\* the names the inputs use
sF == <<"F">>
sG == <<"G">>
sN == <<"N">>
sa_ == <<"a","_">>
sb == <<"b">>
tAbstract == <<" ","<","s","m","a","l","l",">","(","a","b","s","t","r","a","c","t",")",
               "<","/","s","m","a","l","l",">">>

make_heading(line, level) == <<[kind |-> "heading", level |-> level, line |-> line]>>
make_bold(line) == <<"*","*">> \o line \o <<"*","*">>
Line(line) == [kind |-> "line", line |-> line]
\* jekyll(lines): the front-matter block of "key: value" lines
jekyll(pairs) == [kind |-> "jekyll", pairs |-> pairs]
\* MarkdownSection(title, level, content).as_text()
SectionText(title, level, content) == make_heading(title, level) \o content
MarkdownDocument(title, content) == [title |-> title, content |-> content]

\* sep.join(lines)
RECURSIVE Join(_, _)
Join(sep, lines) ==
    IF lines = <<>> THEN <<>>
    ELSE IF Len(lines) = 1 THEN lines[1]
    ELSE lines[1] \o sep \o Join(sep, Tail(lines))

(***************************************************************************)
(* gdscript_objects (not among the sources).  A class is a record          *)
(*   name, extends, category, jekyll_path, description, abstract,          *)
(*   members, functions, signals, enums                                    *)
(* whose last four are lists of elements [name, description].              *)
(***************************************************************************)
Names(elements) == {elements[e].name : e \in DOMAIN elements}

\* GDScriptClass.symbols, the values of class_index
Symbols(c) ==
    Names(c.members) \cup Names(c.functions) \cup Names(c.signals)
        \cup Names(c.enums)

\* GDScriptClasses.__init__: the index, built once from the names then held
BuildIndex(cls) ==
    [name \in {cls[e].name : e \in DOMAIN cls} |->
        Symbols(cls[CHOOSE e \in DOMAIN cls : cls[e].name = name])]

\* GDScriptClass.get_extends_tree: the class, then its ancestors, walking
\* extends through the classes up to a class with no parent or an unknown
\* name; fuel bounds the walk
RECURSIVE Ancestors(_, _, _)
Ancestors(cls, parent, fuel) ==
    IF parent = <<>> \/ fuel = 0 THEN <<>>
    ELSE IF \E e \in DOMAIN cls : cls[e].name = parent
    THEN <<parent>> \o
         Ancestors(cls, cls[CHOOSE e \in DOMAIN cls : cls[e].name = parent].extends,
                   fuel - 1)
    ELSE <<parent>>

get_extends_tree(cls, c) == <<c.name>> \o Ancestors(cls, c.extends, Len(cls))

\* GDScriptClasses.get_grouped_by_category: the groups in first-seen order,
\* the classes of a group in input order
RECURSIVE Categories(_)
Categories(cls) ==
    IF cls = <<>> THEN <<>>
    ELSE LET before == Categories(SubSeq(cls, 1, Len(cls) - 1))
             category == cls[Len(cls)].category
         IN  IF \E e \in DOMAIN before : before[e] = category THEN before
             ELSE Append(before, category)

get_grouped_by_category(cls) ==
    LET cats == Categories(cls)
    IN  [g \in DOMAIN cats |->
            SelectSeq(cls, LAMBDA c : c.category = cats[g])]


(***************************************************************************)
(* _write_summary, lines 176-183.                                          *)
(***************************************************************************)
make_table_header == <<[kind |-> "table_header"]>>
make_table_row(item) == [kind |-> "table_row", name |-> item.name]

\* _write_summary without the early return of lines 179-180
_write_summary_NoEarlyReturn(element_list) ==
    make_table_header
        \o [e \in DOMAIN element_list |-> make_table_row(element_list[e])]

_write_summary(element_list) ==
    IF element_list = <<>> THEN <<>>
    ELSE make_table_header
         \o [e \in DOMAIN element_list |-> make_table_row(element_list[e])]

(***************************************************************************)
(* The calls of _replace_references of one class document, in the order    *)
(* the code makes them.  A run is [texts, warnings, raised]: the resolved  *)
(* descriptions so far, LOGGER's content, and whether a call raised.       *)
(***************************************************************************)
RECURSIVE ResolveEach(_, _, _, _)
ResolveEach(index, name, descriptions, run) ==
    IF descriptions = <<>> \/ run.raised THEN run
    ELSE Only({ ResolveEach(index, name, Tail(descriptions), after) :
            after \in
                { [texts |-> Append(run.texts, st.description),
                   warnings |-> st.warnings,
                   raised |-> st.raised] :
                  st \in {ReplaceReferences(index, name, Head(descriptions),
                                            run.warnings)} } })

Descriptions(elements) == [e \in DOMAIN elements |-> elements[e].description]

\* _write, lines 186-205: heading, signature, resolved description of each
\* element; texts are the resolved descriptions
_write(elements, texts) ==
    Concat([e \in DOMAIN elements |->
        make_heading(elements[e].name, 3)
        \o <<[kind |-> "code", line |-> elements[e].name],
             Line(texts[e])>>])

\* _write_signals, lines 208-219
_write_signals(elements, texts) ==
    [e \in DOMAIN elements |->
        [kind |-> "signal", name |-> elements[e].name, line |-> texts[e]]]

(***************************************************************************)
(* _as_markdown, lines 93-173.  The result holds the class as the call     *)
(* leaves it (line 103 renames it), the document, LOGGER's content and     *)
(* whether a KeyError left the call.                                       *)
(***************************************************************************)
\* lines 102-103
Renamed(c) == IF c.name = sMain THEN [c EXCEPT !.name = sRakugo] ELSE c

\* lines 113-123
JekyllParent(paths) ==
    LET parent == IF Len(paths) >= 3 THEN paths[Len(paths) - 1] ELSE <<>>
    IN  IF parent = tgui THEN tGUI ELSE Title(parent)

\* lines 111-137
FrontMatter(c, format) ==
    IF format # "jekyll" THEN <<>>
    ELSE IF c.name = sRakugo
    THEN <<jekyll(<<[key |-> "title", value |-> c.name],
                    [key |-> "permalink", value |-> <<"/">> \o trakugo],
                    [key |-> "nav_order", value |-> <<"1">>]>>)>>
    ELSE <<jekyll(<<[key |-> "title", value |-> c.name],
                    [key |-> "permalink", value |-> c.jekyll_path],
                    [key |-> "parent",
                     value |-> JekyllParent(Split(c.jekyll_path, "/"))]>>)>>

\* lines 139-140
TopHeading(c, format) ==
    IF format = "markdown"
    THEN make_heading(c.name \o (IF c.abstract THEN tAbstract ELSE <<>>), 1)
    ELSE <<>>

\* line 144
ExtendsLinks(extends_list) ==
    [e \in DOMAIN extends_list |-> make_link(extends_list[e], extends_list[e])]

\* lines 142-145
ExtendsLine(cls, c) ==
    IF c.extends # <<>>
    THEN <<[kind |-> "extends",
            links |-> ExtendsLinks(get_extends_tree(cls, c)),
            line |-> make_bold(tExtends) \o <<" ">>
                     \o Join(<<" ","<"," ">>,
                             ExtendsLinks(get_extends_tree(cls, c)))]>>
    ELSE <<>>

\* lines 150-154
SummarySection(title, element_list) ==
    LET summary == _write_summary(element_list)
    IN  IF summary = <<>> THEN <<>> ELSE SectionText(title, 2, summary)

\* lines 156-159
SignalsSection(elements, texts) ==
    IF elements # <<>>
    THEN SectionText(tSignals, 2, _write_signals(elements, texts))
    ELSE <<>>

\* lines 161-171
DetailSection(title, elements, texts) ==
    IF elements = <<>> THEN <<>>
    ELSE SectionText(title, 2, _write(elements, texts))

Part(s, from, count) == Slice(s, from, from + count - 1)

\* lines 99-173 once the descriptions are resolved: texts holds them in the
\* order of the calls (the class's, the signals', the enums', the members',
\* the functions')
ClassContent(cls, c, format, texts) ==
    LET ns == Len(c.signals)
        ne == Len(c.enums)
        nm == Len(c.members)
        nf == Len(c.functions)
    IN  FrontMatter(c, format)
        \o TopHeading(c, format)
        \o ExtendsLine(cls, c)
        \o SectionText(tDescription, 2, <<Line(texts[1])>>)
        \o SummarySection(tProperties, c.members)
        \o SummarySection(tFunctions, c.functions)
        \o SignalsSection(c.signals, Part(texts, 2, ns))
        \o DetailSection(tEnumerations, c.enums, Part(texts, 2 + ns, ne))
        \o DetailSection(tPropertyDescriptions, c.members,
                         Part(texts, 2 + ns + ne, nm))
        \o DetailSection(tMethodDescriptions, c.functions,
                         Part(texts, 2 + ns + ne + nm, nf))

AllDescriptions(c) ==
    <<c.description>> \o Descriptions(c.signals) \o Descriptions(c.enums)
        \o Descriptions(c.members) \o Descriptions(c.functions)

_as_markdown(cls, index, entry, args, logged) ==
    Only({ [classes |-> now,
            warnings |-> run.warnings,
            raised |-> run.raised,
            document |->
                IF run.raised THEN MarkdownDocument(now[entry].name, <<>>)
                ELSE MarkdownDocument(now[entry].name,
                        ClassContent(now, now[entry], args.format, run.texts))] :
           now \in {[cls EXCEPT ![entry] = Renamed(cls[entry])]},
           run \in {ResolveEach(index, Renamed(cls[entry]).name,
                               AllDescriptions(cls[entry]),
                               [texts |-> <<>>, warnings |-> logged,
                                raised |-> FALSE])} })

(***************************************************************************)
(* _add_index_dict, lines 75-91.  index_dict keeps its keys in insertion   *)
(* order: a list of [key, pages], pages mapping class names to paths.      *)
(***************************************************************************)
HasKey(dict, key) == \E e \in DOMAIN dict : dict[e].key = key
KeyAt(dict, key) == CHOOSE e \in DOMAIN dict : dict[e].key = key

\* lines 84-91
AddPage(dict, p, c) ==
    IF ~HasKey(dict, p)
    THEN Append(dict, [key |-> p, pages |-> (c.name :> c.jekyll_path)])
    ELSE [dict EXCEPT ![KeyAt(dict, p)].pages =
                (c.name :> c.jekyll_path) @@ @]

\* line 81
SkippedSegment(p, paths) == p = <<>> \/ p = paths[Len(paths)]

\* lines 80-91, from the segment at position k
RECURSIVE AddSegments(_, _, _, _)
AddSegments(dict, paths, k, c) ==
    IF k > Len(paths) THEN dict
    ELSE IF SkippedSegment(paths[k], paths)
    THEN AddSegments(dict, paths, k + 1, c)
    ELSE AddSegments(AddPage(dict, paths[k], c), paths, k + 1, c)

\* _add_index_dict without "and arguments.make_index" in line 77
_add_index_dict_AnyIndexSetting(dict, c, args) ==
    IF args.format = "jekyll"
    THEN AddSegments(dict, Split(c.jekyll_path, "/"), 1, c)
    ELSE dict

_add_index_dict(dict, c, args) ==
    IF args.format = "jekyll" /\ args.make_index
    THEN AddSegments(dict, Split(c.jekyll_path, "/"), 1, c)
    ELSE dict

(***************************************************************************)
(* _write_index_page and _write_table_of_contents, lines 222-252.          *)
(***************************************************************************)
ProjectInfo == [name |-> <<"P">>, version |-> <<"1">>, description |-> <<>>]

TocGroup(group) ==
    LET category == group[1].category
        indent == IF category # <<>> THEN <<" "," ">> ELSE <<>>
    IN  (IF category # <<>>
         THEN <<Line(<<"-"," ">> \o make_bold(category))>> ELSE <<>>)
        \o [e \in DOMAIN group |->
              Line(indent \o <<"-"," ">>
                   \o make_link(group[e].name, group[e].name))]

_write_table_of_contents(cls) ==
    LET by_category == get_grouped_by_category(cls)
    IN  Concat([g \in DOMAIN by_category |-> TocGroup(by_category[g])])

_write_index_page(cls, info) ==
    MarkdownDocument(tindex,
        SectionText(info.name \o <<" ","(","<","s","m","a","l","l",">">>
                        \o info.version
                        \o <<"<","/","s","m","a","l","l",">",")">>,
                    1, <<Line(info.description)>>)
        \o SectionText(tContents, 2, _write_table_of_contents(cls)))

\* lines 57-71: the section document of a key of index_dict
SectionDocument(parent) ==
    MarkdownDocument(parent,
        <<jekyll(<<[key |-> "title", value |-> Title(parent)],
                   [key |-> "permalink", value |-> <<"/">> \o parent],
                   [key |-> "nav_order", value |-> <<"2">>],
                   [key |-> "has_children", value |-> ttrue],
                   [key |-> "has_toc", value |-> ttrue]>>)>>)


(***************************************************************************)
(* The state.                                                              *)
(*   classes, class_index  the GDScriptClasses list and the index built    *)
(*                         once when it was constructed                    *)
(*   arguments             the command line: format and make_index         *)
(*   markdown, index_dict  the locals of convert_to_markdown               *)
(*   warnings              what LOGGER.warning received                    *)
(*   pc, n                 where convert_to_markdown is, and its loop      *)
(*                         position                                        *)
(*   gdname, text          the current class's name and the description    *)
(*                         of a call of _replace_references                *)
(*   references, turn      the matches of findall and the loop position    *)
(*   call                  the state of that call                          *)
(***************************************************************************)
VARIABLES classes, class_index, arguments, markdown, index_dict, warnings,
          pc, n, gdname, text, references, turn, call

vars == <<classes, class_index, arguments, markdown, index_dict, warnings,
          pc, n, gdname, text, references, turn, call>>

convert_vars == <<classes, arguments, markdown, index_dict, warnings, n>>
resolve_vars == <<gdname, text, references, turn, call>>

(***************************************************************************)
(* The texts the inputs are built from.                                    *)
(***************************************************************************)
Pieces ==
    { <<"[","F","]">>, <<"[","G","]">>, <<"[","a","_","]">>, <<"[","b","]">>,
      <<"[","F",".","a","_","]">>, <<"[","F",".","b","]">>,
      <<"[",".","]">>, <<"[","F",".","]">>, <<"[",".","a","_","]">>,
      <<"[","a"," ","b","]">>, <<"x">>, <<"\n">> }

RECURSIVE TextsOf(_)
TextsOf(k) ==
    IF k = 0 THEN {<<>>}
    ELSE LET shorter == TextsOf(k - 1)
         IN  shorter \cup {t \o piece : t \in shorter, piece \in Pieces}

Texts == TextsOf(MaxPieces)

\* the calls: the index holds F with its member a_, with or without G; the
\* current class is F, or the root class after line 103 renamed it, the
\* index still holding it as Main
Calls ==
    { [index |-> (sF :> {sa_}) @@ (sG :> {sb}), name |-> sF],
      [index |-> (sF :> {sa_}), name |-> sF],
      [index |-> (sMain :> {sa_}) @@ (sF :> {sa_}), name |-> sRakugo] }

IdleCall == CallState(<<>>, <<>>)

(***************************************************************************)
(* _replace_references, one step per statement group.                      *)
(***************************************************************************)
InitResolve ==
    /\ \E c \in Calls : class_index = c.index /\ gdname = c.name
    /\ text \in Texts
    /\ references = <<>>
    /\ turn = 0
    /\ call = CallState(text, <<>>)
    /\ pc = "findall"
    /\ classes = <<>>
    /\ arguments = [format |-> "markdown", make_index |-> FALSE]
    /\ markdown = <<>>
    /\ index_dict = <<>>
    /\ warnings = <<>>
    /\ n = 0

\* line 266
Scan ==
    /\ pc = "findall"
    /\ references' = FindAll(text)
    /\ turn' = 1
    /\ pc' = "loop"
    /\ UNCHANGED <<class_index, gdname, text, call, convert_vars>>

\* lines 267-310: the turn of the loop, when it does `did`
TurnDoing(did) ==
    \E after \in {LoopBody(class_index, gdname, call, references[turn])} :
        /\ after.did = did
        /\ call' = after
        /\ pc' = IF after.raised THEN "raised" ELSE "loop"
        /\ turn' = turn + 1
        /\ UNCHANGED <<class_index, gdname, text, references, convert_vars>>

\* line 273: the reference does not match, continue
TurnNoMatch ==
    /\ pc = "loop" /\ turn <= Len(references)
    /\ TurnDoing("nomatch")

\* lines 277-280: the class is not in the index, warn and continue
TurnClassMissing ==
    /\ pc = "loop" /\ turn <= Len(references)
    /\ TurnDoing("class_missing")

\* lines 282-288 and 290-295: the member is not found, warn and continue
TurnMemberMissing ==
    /\ pc = "loop" /\ turn <= Len(references)
    /\ TurnDoing("member_missing")

\* line 290: class_index[gdscript.name] with a name that is no key
TurnKeyError ==
    /\ pc = "loop" /\ turn <= Len(references)
    /\ TurnDoing("key_error")

\* lines 297-310: the link is made and substituted
TurnLink ==
    /\ pc = "loop" /\ turn <= Len(references)
    /\ TurnDoing("link")

\* line 312
Return ==
    /\ pc = "loop"
    /\ turn > Len(references)
    /\ pc' = "returned"
    /\ UNCHANGED <<class_index, gdname, text, references, turn, call,
                   convert_vars>>

NextResolve ==
    \/ Scan
    \/ TurnNoMatch
    \/ TurnClassMissing
    \/ TurnMemberMissing
    \/ TurnKeyError
    \/ TurnLink
    \/ Return

SpecResolve == InitResolve /\ [][NextResolve]_vars


(***************************************************************************)
(* convert_to_markdown, lines 35-73: its inputs.                           *)
(***************************************************************************)
Element(name, description) == [name |-> name, description |-> description]

Class(name, extends, category, path, description, abstract, ms, fs, ss, es) ==
    [name |-> name, extends |-> extends, category |-> category,
     jekyll_path |-> path, description |-> description,
     abstract |-> abstract, members |-> ms, functions |-> fs,
     signals |-> ss, enums |-> es]

pF == <<"/","f">>
pMainF == <<"/","m","a","i","n","/","f">>
pGuiB == <<"/","g","u","i","/","b">>
pAB == <<"/","a","/","b">>
pAA == <<"/","a","/","a">>
pAGuiC == <<"/","a","/","g","u","i","/","c">>
Paths == {pF, pMainF, pGuiB, pAB, pAA, pAGuiC}

refA == <<"[","a","_","]">>
refF == <<"[","F","]">>
refG == <<"[","G","]">>

\* one class, every combination of its parts
OneClass ==
    { Class(name, extends, <<>>, path, description, abstract,
            members, functions, signals, enums) :
        name \in {sMain, sF}, extends \in {<<>>, sN}, path \in Paths,
        description \in {<<>>, refA, refF}, abstract \in BOOLEAN,
        members \in {<<>>, <<Element(sa_, <<>>)>>},
        functions \in {<<>>, <<Element(sb, refA)>>},
        signals \in {<<>>, <<Element(<<"s">>, refG)>>},
        enums \in {<<>>, <<Element(<<"E">>, <<>>)>>} }

\* the classes several-class inputs are drawn from
Catalogue ==
    { Class(sMain, <<>>, <<>>, <<"/","m","a","i","n">>, <<>>, FALSE,
            <<Element(sa_, <<>>)>>, <<>>, <<>>, <<>>),
      Class(sMain, <<>>, <<>>, <<"/","m","a","i","n">>, refA, FALSE,
            <<Element(sa_, <<>>)>>, <<>>, <<>>, <<>>),
      Class(sF, sG, <<"c">>, pGuiB, refG, FALSE,
            <<Element(sa_, refA)>>, <<>>, <<>>, <<>>),
      Class(sF, sG, <<>>, pAB, <<>>, TRUE, <<>>, <<>>, <<>>, <<>>),
      Class(sF, <<>>, <<>>, pAA, <<>>, FALSE, <<>>, <<>>, <<>>, <<>>),
      Class(sG, sN, <<"c">>, pGuiB, <<>>, FALSE,
            <<>>, <<Element(sb, <<>>)>>, <<>>, <<>>),
      Class(sG, <<>>, <<>>, pAGuiC, refF, FALSE, <<>>, <<>>, <<>>, <<>>),
      Class(sG, sMain, <<>>, pMainF, <<>>, FALSE, <<>>, <<>>, <<>>, <<>>) }

\* the lists of at most k classes of the catalogue, no name twice
RECURSIVE ClassLists(_)
ClassLists(k) ==
    IF k = 0 THEN {<<>>}
    ELSE LET shorter == ClassLists(k - 1)
         IN  shorter \cup
             { Append(l, c) : l \in shorter, c \in Catalogue } 

UniqueNames(cls) ==
    \A e, f \in DOMAIN cls : cls[e].name = cls[f].name => e = f

Inputs ==
    {<<c>> : c \in OneClass}
        \cup {l \in ClassLists(MaxClasses) : UniqueNames(l)}

Init ==
    /\ classes \in Inputs
    /\ class_index = BuildIndex(classes)
    /\ arguments \in [format : {"markdown", "jekyll"}, make_index : BOOLEAN]
    /\ markdown = <<>>
    /\ index_dict = <<>>
    /\ warnings = <<>>
    /\ pc = "start"
    /\ n = 1
    /\ gdname = <<>>
    /\ text = <<>>
    /\ references = <<>>
    /\ turn = 0
    /\ call = IdleCall

(***************************************************************************)
(* convert_to_markdown, lines 35-73: its steps.                            *)
(***************************************************************************)
AfterStart == IF classes = <<>> THEN "sections" ELSE "classes"

\* lines 43-46: the index page, for any format but jekyll
WriteIndexPage ==
    /\ pc = "start"
    /\ arguments.make_index /\ arguments.format # "jekyll"
    /\ markdown' = Append(markdown, _write_index_page(classes, ProjectInfo))
    /\ pc' = AfterStart
    /\ UNCHANGED <<classes, class_index, arguments, index_dict, warnings, n,
                   resolve_vars>>

\* lines 43-45: no index page
NoIndexPage ==
    /\ pc = "start"
    /\ ~(arguments.make_index /\ arguments.format # "jekyll")
    /\ pc' = AfterStart
    /\ UNCHANGED <<classes, class_index, arguments, markdown, index_dict,
                   warnings, n, resolve_vars>>

\* lines 49-51: one class, its document and its path segments
ConvertClass ==
    /\ pc = "classes"
    /\ n <= Len(classes)
    /\ \E made \in {_as_markdown(classes, class_index, n, arguments,
                                  warnings)} :
           /\ ~made.raised
           /\ classes' = made.classes
           /\ warnings' = made.warnings
           /\ markdown' = Append(markdown, made.document)
           /\ index_dict' = _add_index_dict(index_dict, made.classes[n],
                                            arguments)
    /\ n' = IF n = Len(classes) THEN 1 ELSE n + 1
    /\ pc' = IF n = Len(classes) THEN "sections" ELSE "classes"
    /\ UNCHANGED <<class_index, arguments, resolve_vars>>

\* line 50: the KeyError of _replace_references leaves convert_to_markdown
ConvertClassRaises ==
    /\ pc = "classes"
    /\ n <= Len(classes)
    /\ \E made \in {_as_markdown(classes, class_index, n, arguments,
                                  warnings)} :
           /\ made.raised
           /\ classes' = made.classes
           /\ warnings' = made.warnings
    /\ pc' = "raised"
    /\ UNCHANGED <<class_index, arguments, markdown, index_dict, n,
                   resolve_vars>>

\* line 54
SkippedParent(parent) == parent = tmain \/ parent = <<>>

\* lines 53-55: the keys "main" and "" get no document
SkipSection ==
    /\ pc = "sections"
    /\ n <= Len(index_dict)
    /\ SkippedParent(index_dict[n].key)
    /\ n' = n + 1
    /\ UNCHANGED <<classes, class_index, arguments, markdown, index_dict,
                   warnings, pc, resolve_vars>>

\* lines 57-71: the section document of a key
WriteSection ==
    /\ pc = "sections"
    /\ n <= Len(index_dict)
    /\ ~SkippedParent(index_dict[n].key)
    /\ markdown' = Append(markdown, SectionDocument(index_dict[n].key))
    /\ n' = n + 1
    /\ UNCHANGED <<classes, class_index, arguments, index_dict, warnings, pc,
                   resolve_vars>>

\* line 73
ReturnMarkdown ==
    /\ pc = "sections"
    /\ n > Len(index_dict)
    /\ pc' = "done"
    /\ UNCHANGED <<classes, class_index, arguments, markdown, index_dict,
                   warnings, n, resolve_vars>>

Next ==
    \/ WriteIndexPage
    \/ NoIndexPage
    \/ ConvertClass
    \/ ConvertClassRaises
    \/ SkipSection
    \/ WriteSection
    \/ ReturnMarkdown

Spec == Init /\ [][Next]_vars


(***************************************************************************)
(* What the claims speak of, stated apart from the code's scan.            *)
(*                                                                         *)
(* A reference token is "[" inner "]" with no bracket in inner, inner      *)
(* being ClassName, symbol or ClassName.symbol: a ClassName begins with an *)
(* upper-case letter and goes on with letters and digits, a symbol is made *)
(* of lower-case letters, digits and underscores.                          *)
(***************************************************************************)
RefClassName(s) ==
    /\ s # <<>>
    /\ IsUpper(s[1])
    /\ \A k \in 2..Len(s) : IsUpper(s[k]) \/ IsLower(s[k]) \/ IsDigit(s[k])

RefSymbol(s) ==
    /\ s # <<>>
    /\ \A k \in 1..Len(s) : IsLower(s[k]) \/ IsDigit(s[k]) \/ s[k] = "_"

RefDots(inner) == {d \in DOMAIN inner : inner[d] = "."}

RefShaped(inner) ==
    \/ RefClassName(inner)
    \/ RefSymbol(inner)
    \/ \E d \in RefDots(inner) :
          /\ RefClassName(Slice(inner, 1, d - 1))
          /\ RefSymbol(Slice(inner, d + 1, Len(inner)))

\* the ClassName and the symbol of a shaped inner, empty when it has none
RefClass(inner) ==
    IF RefClassName(inner) THEN inner
    ELSE IF RefSymbol(inner) THEN <<>>
    ELSE Slice(inner, 1, Min(RefDots(inner)) - 1)

RefMember(inner) ==
    IF RefClassName(inner) THEN <<>>
    ELSE IF RefSymbol(inner) THEN inner
    ELSE Slice(inner, Min(RefDots(inner)) + 1, Len(inner))

\* the reference tokens of a text, as <<first, last>> positions
RefSpans(t) ==
    { span \in (DOMAIN t) \X (DOMAIN t) :
        /\ span[1] < span[2]
        /\ t[span[1]] = "[" /\ t[span[2]] = "]"
        /\ \A k \in (span[1] + 1)..(span[2] - 1) : t[k] \notin {"[", "]"}
        /\ RefShaped(Slice(t, span[1] + 1, span[2] - 1)) }

RefInner(t, span) == Slice(t, span[1] + 1, span[2] - 1)

\* the class a token's symbol is searched in
RefSearched(inner, name) ==
    IF RefClass(inner) # <<>> THEN RefClass(inner) ELSE name

\* a token is valid when its class is in the index and its symbol is a
\* member of the class searched, and broken otherwise
RefValid(index, name, inner) ==
    /\ RefClass(inner) # <<>> => RefClass(inner) \in DOMAIN index
    /\ RefMember(inner) # <<>> =>
          /\ RefSearched(inner, name) \in DOMAIN index
          /\ RefMember(inner) \in index[RefSearched(inner, name)]

Dashed(symbol) ==
    [k \in DOMAIN symbol |-> IF symbol[k] = "_" THEN "-" ELSE symbol[k]]

\* the link of a token: its text as it is, then the target
RefLink(inner, target) ==
    <<"[">> \o inner \o <<"]", "(">> \o target \o <<")">>

\* the target the code gives: ClassName, #symbol, ClassName/#symbol
RefTarget(inner) ==
    IF RefMember(inner) = <<>> THEN RefClass(inner)
    ELSE IF RefClass(inner) = <<>> THEN <<"#">> \o Dashed(RefMember(inner))
    ELSE RefClass(inner) \o <<"/", "#">> \o Dashed(RefMember(inner))

\* the target the specification gives: ClassName, #symbol, ClassName#symbol
RefTargetClaimed(inner) ==
    IF RefMember(inner) = <<>> THEN RefClass(inner)
    ELSE IF RefClass(inner) = <<>> THEN <<"#">> \o Dashed(RefMember(inner))
    ELSE RefClass(inner) \o <<"#">> \o Dashed(RefMember(inner))

\* the token the turn before this state handled: the reference up to its
\* first "]", without the brackets
HandledInner ==
    LET reference == references[turn - 1]
        close == Min({k \in DOMAIN reference : reference[k] = "]"})
    IN  Slice(reference, 2, close - 1)

JustLinked == pc \in {"loop", "returned"} /\ turn >= 2 /\ call.did = "link"

Count(t, sub) == Cardinality({k \in 1..Len(t) : OccursAt(t, sub, k)})

(***************************************************************************)
(* C1, as amended.  The link made for a valid reference token is fixed by  *)
(* the token's shape: [ClassName] gives the text ClassName and the target  *)
(* ClassName, [symbol] gives the text symbol and the target "#" symbol     *)
(* with "-" for every "_", [ClassName.symbol] gives the text               *)
(* ClassName.symbol and the target ClassName "/#" symbol with "-" for      *)
(* every "_".  The text keeps its underscores.                             *)
(***************************************************************************)
C1_LinkByShape ==
    (JustLinked /\ RefShaped(HandledInner)) =>
        call.link = RefLink(HandledInner, RefTarget(HandledInner))

\* C1, as the claim has it: the target of [ClassName.symbol] is
\* ClassName "#" symbol, with no "/" between
C1_Original ==
    (JustLinked /\ RefShaped(HandledInner)) =>
        call.link = RefLink(HandledInner, RefTargetClaimed(HandledInner))

\* a link was made for [F.a_]: its text keeps the underscore, its anchor
\* has the dash
C1_Witness ==
    /\ JustLinked
    /\ HandledInner = <<"F", ".", "a", "_">>
    /\ call.link = <<"[","F",".","a","_","]","(","F","/","#","a","-",")">>

(***************************************************************************)
(* C2.  A text with a single reference token, which is broken, comes back  *)
(* unchanged with exactly one warning, which names the class searched.     *)
(***************************************************************************)
SingleBrokenToken ==
    /\ Cardinality(RefSpans(text)) = 1
    /\ \A span \in RefSpans(text) :
          ~RefValid(class_index, gdname, RefInner(text, span))

C2_BrokenKeptAndWarned ==
    (pc \in {"returned", "raised"} /\ SingleBrokenToken) =>
        /\ pc = "returned"
        /\ call.description = text
        /\ Len(call.warnings) = 1
        /\ \A span \in RefSpans(text) :
              call.warnings[1].searched =
                  RefSearched(RefInner(text, span), gdname)

(***************************************************************************)
(* C3.  Only the spans of valid reference tokens change: the other parts   *)
(* of the text are in the output, unchanged and in their order, and every  *)
(* warning is about a broken reference token of the text.                  *)
(***************************************************************************)
ValidSpans(t) ==
    {span \in RefSpans(t) : RefValid(class_index, gdname, RefInner(t, span))}

\* the parts of t from position k on that lie outside the valid tokens;
\* part is the one being gathered
RECURSIVE OtherParts(_, _, _)
OtherParts(t, k, part) ==
    IF k > Len(t) THEN <<part>>
    ELSE IF \E span \in ValidSpans(t) : span[1] = k
    THEN <<part>> \o
         OtherParts(t, (CHOOSE span \in ValidSpans(t) : span[1] = k)[2] + 1,
                    <<>>)
    ELSE OtherParts(t, k + 1, Append(part, t[k]))

\* the parts occur in out from position k on, one after the other
RECURSIVE InOrder(_, _, _)
InOrder(out, parts, k) ==
    IF parts = <<>> THEN TRUE
    ELSE LET places == {q \in k..(Len(out) + 1) : OccursAt(out, Head(parts), q)}
         IN  /\ places # {}
             /\ InOrder(out, Tail(parts), Min(places) + Len(Head(parts)))

WarnedTokens ==
    { RefInner(text, span) : span \in RefSpans(text) \ ValidSpans(text) }

C3_OnlyValidTokensChange ==
    pc = "returned" =>
        /\ InOrder(call.description, OtherParts(text, 1, <<>>), 1)
        /\ \A w \in DOMAIN call.warnings :
              \E inner \in WarnedTokens :
                  call.warnings[w].symbol \in {RefClass(inner), RefMember(inner)}

(***************************************************************************)
(* C4.  When a valid reference token occurs several times, every one of    *)
(* its occurrences becomes one well-formed link: the output holds the link *)
(* as often as the text held the token, no token stays without its target  *)
(* and no link is followed by a second target.  Stated for the texts whose *)
(* lines hold one bracket pair at most, where the scan of line 266 finds   *)
(* every occurrence as a reference of its own.                             *)
(***************************************************************************)
Token(inner) == <<"[">> \o inner \o <<"]">>

OnePairPerLine(t) ==
    \A k, m \in DOMAIN t :
        (k < m /\ t[k] = "[" /\ t[m] = "[") =>
            \E q \in (k + 1)..(m - 1) : t[q] = "\n"

C4_EachOccurrenceLinked ==
    (pc = "returned" /\ OnePairPerLine(text)) =>
        \A span \in ValidSpans(text) :
            LET inner == RefInner(text, span)
                link == RefLink(inner, RefTarget(inner))
                times == Count(text, Token(inner))
            IN  times >= 2 =>
                    /\ Count(call.description, link) = times
                    /\ Count(call.description, Token(inner)) = times
                    /\ Count(call.description, link \o <<"(">>) = 0


(***************************************************************************)
(* The documents of convert_to_markdown.                                   *)
(***************************************************************************)
\* the index page, when written, is the first document
Offset ==
    IF arguments.make_index /\ arguments.format # "jekyll" THEN 1 ELSE 0

\* the class at position e has been converted
Converted(e) ==
    /\ e \in DOMAIN classes
    /\ \/ pc = "classes" /\ e < n
       \/ pc \in {"sections", "done"}

ClassDocument(e) == markdown[e + Offset]

HasHeading(d, title, level) ==
    \E k \in DOMAIN d.content :
        /\ d.content[k].kind = "heading"
        /\ d.content[k].level = level
        /\ d.content[k].line = title

HasKind(d, kind) == \E k \in DOMAIN d.content : d.content[k].kind = kind

\* the value of a key of the document's front matter, "" when it has none
FrontValue(d, key) ==
    IF d.content # <<>> /\ d.content[1].kind = "jekyll"
       /\ \E k \in DOMAIN d.content[1].pairs : d.content[1].pairs[k].key = key
    THEN LET pairs == d.content[1].pairs
         IN  pairs[CHOOSE k \in DOMAIN pairs : pairs[k].key = key].value
    ELSE <<>>

IsIndexDocument(d) == d.title = tindex /\ HasHeading(d, tContents, 2)

IsSectionDocument(d) ==
    /\ Len(d.content) = 1
    /\ d.content[1].kind = "jekyll"
    /\ FrontValue(d, "has_children") = ttrue

IsClassDocument(d, c) == d.title = c.name /\ HasHeading(d, tDescription, 2)

\* the documents after those of the classes
SectionPlaces == {k \in DOMAIN markdown : k > Len(classes) + Offset}

Nested == arguments.format = "jekyll" /\ arguments.make_index

(***************************************************************************)
(* C5.  A class document has the Extends line exactly when the class has   *)
(* a parent; in it an ancestor that is in the class index is a link and an *)
(* ancestor that is not is plain text.                                     *)
(***************************************************************************)
C5_AncestorsLinkedWhenKnown ==
    \A e \in DOMAIN classes : Converted(e) =>
        LET d == ClassDocument(e)
            tree == get_extends_tree(classes, classes[e])
        IN  /\ HasKind(d, "extends") <=> classes[e].extends # <<>>
            /\ \A k \in DOMAIN d.content : d.content[k].kind = "extends" =>
                  \A j \in 2..Len(tree) :
                      d.content[k].links[j] =
                          IF tree[j] \in DOMAIN class_index
                          THEN make_link(tree[j], tree[j])
                          ELSE tree[j]

(***************************************************************************)
(* C6.  A reference [symbol] in the document of a class whose name is no   *)
(* key of the class index (the root class, once renamed) is not found: the *)
(* conversion goes on and never raises, the text stays and a warning names *)
(* the class.                                                              *)
(***************************************************************************)
C6_UnknownCurrentClassWarns ==
    /\ pc # "raised"
    /\ \A e \in DOMAIN classes :
          (/\ Converted(e)
           /\ classes[e].name \notin DOMAIN class_index
           /\ classes[e].description = refA) =>
              /\ \E k \in DOMAIN ClassDocument(e).content :
                    ClassDocument(e).content[k] = Line(refA)
              /\ \E w \in DOMAIN warnings :
                    warnings[w] = MemberWarning(sa_, classes[e].name)

(***************************************************************************)
(* C7.  With the jekyll format and make_index, the section documents are   *)
(* one for each segment that is at a place before the last of some class's *)
(* path, "" and "main" left out, and no other.                             *)
(***************************************************************************)
InnerSegmentsOf(path) ==
    LET paths == Split(path, "/")
    IN  {paths[k] : k \in 1..(Len(paths) - 1)}

InnerSegments ==
    UNION {InnerSegmentsOf(classes[e].jekyll_path) : e \in DOMAIN classes}
        \ {<<>>, tmain}

C7_OneSectionPerInnerSegment ==
    (pc = "done" /\ Nested) =>
        /\ {markdown[k].title : k \in SectionPlaces} = InnerSegments
        /\ Cardinality(SectionPlaces) = Cardinality(InnerSegments)
        /\ \A k \in SectionPlaces : IsSectionDocument(markdown[k])

BareContent(content) ==
    /\ Len(content) \in 3..4
    /\ content[1].kind \in {"jekyll", "heading"}
    /\ content[1].kind = "heading" => content[1].level = 1
    /\ Len(content) = 4 => content[2].kind = "extends"
    /\ content[Len(content) - 1].kind = "heading"
    /\ content[Len(content) - 1].line = tDescription
    /\ content[Len(content)].kind = "line"

C9_SectionsOnlyForWhatTheClassHas ==
    \A e \in DOMAIN classes : Converted(e) =>
        LET d == ClassDocument(e)
            c == classes[e]
        IN  /\ HasHeading(d, tProperties, 2) => c.members # <<>>
            /\ HasHeading(d, tPropertyDescriptions, 2) => c.members # <<>>
            /\ HasHeading(d, tFunctions, 2) => c.functions # <<>>
            /\ HasHeading(d, tMethodDescriptions, 2) => c.functions # <<>>
            /\ HasHeading(d, tSignals, 2) => c.signals # <<>>
            /\ HasHeading(d, tEnumerations, 2) => c.enums # <<>>
            /\ HasKind(d, "table_header") =>
                  (c.members # <<>> \/ c.functions # <<>>)
            /\ (c.members = <<>> /\ c.functions = <<>> /\ c.signals = <<>>
                    /\ c.enums = <<>>) => BareContent(d.content)

\* a class with nothing but a parent, converted to its heading, its Extends
\* line and its Description
C9_Witness ==
    \E e \in DOMAIN classes :
        /\ Converted(e)
        /\ classes[e].members = <<>> /\ classes[e].functions = <<>>
        /\ classes[e].signals = <<>> /\ classes[e].enums = <<>>
        /\ classes[e].extends # <<>>
        /\ Len(ClassDocument(e).content) = 4
        /\ BareContent(ClassDocument(e).content)

(***************************************************************************)
(* C10.  With the jekyll format and make_index, a class document whose     *)
(* front matter has a parent that is not empty comes with a section        *)
(* document whose title is that parent.  Stated for the classes whose last *)
(* path segment is not also an earlier segment of the path, which line 81  *)
(* skips whatever their place.                                             *)
(***************************************************************************)
LeafSegment(path) == Split(path, "/")[Len(Split(path, "/"))]

C10_ParentHasItsSection ==
    (pc = "done" /\ Nested) =>
        \A e \in DOMAIN classes :
            (/\ FrontValue(ClassDocument(e), "parent") # <<>>
             /\ LeafSegment(classes[e].jekyll_path)
                    \notin InnerSegmentsOf(classes[e].jekyll_path)) =>
                \E k \in SectionPlaces :
                    FrontValue(markdown[k], "title") =
                        FrontValue(ClassDocument(e), "parent")


=============================================================================
